---- MODULE Spec2Model ----
(***************************************************************************)
(* Red-dot reaction-time game (src/main.py): the target-selection state    *)
(* machine (everySecond / everySecondRed), the per-frame hit test          *)
(* (mouseTask), the click handler with its timing cursors and text log     *)
(* (changeColor), and the save-and-exit handler (saveDataExit).            *)
(*                                                                         *)
(* All callbacks run on Panda3D's single task-manager thread, so each      *)
(* handler is one atomic action of Spec.  SpecTicks follows the two tick   *)
(* handlers draw by draw, through their resampling loops.                  *)
(***************************************************************************)
EXTENDS Integers, Sequences, FiniteSets, TLC

(***************************************************************************)
(* Program constants.                                                      *)
(***************************************************************************)
\* Initial value of timerOverallNew and timerRedNew.
Sentinel == 99999
\* strftime("%H:%M:%S") prints the time of day: it wraps every 86400 s.
SecondsPerDay == 86400

(***************************************************************************)
(* Bounds of the model.                                                    *)
(***************************************************************************)
\* Number of targets.  The program has 17 (range(17), randrange(17)); every
\* handler treats the indices alike, so the model keeps a few of them.
NumTargets == 4
\* Clicks handled in one session.
MaxClicks == 2

Targets == 0 .. (NumTargets - 1)

\* Pointer states seen by mouseTask: hasMouse() false, a ray that hits no
\* target, or a ray that hits target i.
NoMouse == -2
OffTarget == -1
PointerPositions == {NoMouse, OffTarget} \cup Targets

\* localNum exists only while everySecondRed runs.
NoDraw == -1

\* (perf_counter(), time of day) at launch.  perf_counter() counts seconds
\* from an arbitrary origin (on Linux, system boot), so a session may start
\* below or at the sentinel value.
SessionStarts ==
    { [perf |-> 0, wall |-> SecondsPerDay - 1],
      [perf |-> Sentinel, wall |-> SecondsPerDay \div 2] }

\* The clock readings of a session: the second it starts in and the next.
ClockValues == UNION { {s.perf, s.perf + 1} : s \in SessionStarts }

VARIABLES
    asteroids,           \* asteroids[i]: colour last set on target i
    chosenNum,           \* index of the red (active) target
    localNum2,           \* index of the pre-selected target
    mouseOver,           \* global mouseOver
    outputDataContents,  \* the log text, as a sequence of tokens
    timerOverallNew,     \* perf_counter() at the last click
    timerRedNew,         \* perf_counter() at the last click inside red
    mpos,                \* where the pointer is (mouseWatcherNode)
    perfCounter,         \* last value time.perf_counter() returned
    wallClock,           \* time of day (s) at that moment
    dataFile,            \* content written by saveDataExit; <<>> before
    exited,              \* sys.exit() was called
    pc,                  \* the tick handler that is running, or "idle"
    localNum,            \* everySecondRed's local draw; NoDraw outside it
    lastEvent            \* history, read by the properties only: the last
                         \* thing that happened, frame hit tests not
                         \* counted: "init", "move" (pointer), "next"
                         \* (everySecond), "active" (everySecondRed),
                         \* "insideOnRed" (click logged inside red with the
                         \* pointer on the red target), "click" (any other
                         \* click), "exit"

vars == << asteroids, chosenNum, localNum2, mouseOver, outputDataContents,
           timerOverallNew, timerRedNew, mpos, perfCounter, wallClock,
           dataFile, exited, pc, localNum, lastEvent >>

(***************************************************************************)
(* Colours (setColor) and log text.                                        *)
(***************************************************************************)
Blue == "blue"        \* setColor(0.0, 0.0, 1.0, 1.0)
Red == "red"          \* setColor(1.0, 0.0, 0.0, 1.0)
Yellow == "yellow"    \* setColor(1.0, 1.0, 0.0, 1.0)

\* The log is a string; it is modelled as the sequence of its tokens:
\* words, numbers, times, "," and "\n".
Tok(k, n) == [k |-> k, n |-> n]
Comma == Tok(",", 0)
NL == Tok("\n", 0)
Word(w) == Tok(w, 0)

\* str(x) of an elapsed time.
str(x) == Tok("num", x)

\* datetime.now().strftime("%H:%M:%S") at time of day w: the digits HHMMSS.
strftime(w) ==
    Tok("time", (w \div 3600) * 10000 + ((w \div 60) % 60) * 100 + (w % 60))

Header ==
    << Word("timeStamp"), Comma, Word("event"), Comma,
       Word("timeSinceLastClick"), Comma, Word("timeSinceLastRedClick"), NL >>

FirstRedLine(w) ==
    << strftime(w), Comma, Word("firstRedAppears"), Comma, Comma, NL >>

InsideLine(w, tOverall, tRed) ==
    << strftime(w), Comma, Word("leftClkInsideRed"), Comma,
       str(tOverall), Comma, str(tRed), NL >>

\* Variant that writes the outside line without its last, empty field.
OutsideLineThreeFields(w, tOverall) ==
    << strftime(w), Comma, Word("leftClkOutsideRed"), Comma,
       str(tOverall), NL >>

\* Variant that repeats the line of line 171 for an outside click.
OutsideLineAsFirstRed(w, tOverall) == FirstRedLine(w)

OutsideLine(w, tOverall) ==
    << strftime(w), Comma, Word("leftClkOutsideRed"), Comma,
       str(tOverall), Comma, NL >>

\* Variant without the clamp.
ClampMissing(d) == d

\* if timer < 0: timer = 0
Clamp(d) == IF d < 0 THEN 0 ELSE d

\* Number of "\n" in the log text.
NumLines(text) == Cardinality({ i \in DOMAIN text : text[i] = NL })

\* Events logged by clicks (all lines but the header and firstRedAppears).
NumClicks == NumLines(outputDataContents) - 2

(***************************************************************************)
(* Clock readings.                                                         *)
(***************************************************************************)
\* time.perf_counter() is monotonic: a reading is never below the last one.
PerfReads(from) == { t \in ClockValues : from <= t /\ t <= from + 1 }

\* Time of day when perf_counter() reads t.
WallAt(t) == (wallClock + (t - perfCounter)) % SecondsPerDay

(***************************************************************************)
(* Random choices with rejection.                                          *)
(***************************************************************************)
\* Variant without the rejection loop.
NextCandidatesNoReject(c) == Targets

\* while (chosenNum == localNum2): localNum2 = randrange(17)
NextCandidates(c) == { l \in Targets : ~(c = l) }

\* Variant whose loop tests the old red index only.
ActiveCandidatesOldOnly(c, l2) == { l \in Targets : ~(c = l) }

\* Variant whose loop tests the pre-selected index only.
ActiveCandidatesNextOnly(c, l2) == { l \in Targets : ~(l2 = l) }

\* while (chosenNum == localNum or localNum2 == localNum): ...
ActiveCandidates(c, l2) == { l \in Targets : ~(c = l \/ l2 = l) }

(***************************************************************************)
(* State after AsteroidsDemo.__init__.                                     *)
(***************************************************************************)
Init ==
    /\ chosenNum \in Targets
    /\ localNum2 \in NextCandidates(chosenNum)
    /\ asteroids = [i \in Targets |-> IF i = chosenNum THEN Red ELSE Blue]
    /\ mouseOver = FALSE
    /\ \E s \in SessionStarts :
          /\ perfCounter = s.perf
          /\ wallClock = s.wall
          /\ outputDataContents = Header \o FirstRedLine(s.wall)
    /\ timerOverallNew = Sentinel
    /\ timerRedNew = Sentinel
    /\ mpos \in PointerPositions
    /\ dataFile = << >>
    /\ exited = FALSE
    /\ pc = "idle"
    /\ localNum = NoDraw
    /\ lastEvent = "init"

(***************************************************************************)
(* The user moves the pointer (or it leaves / enters the window).          *)
(***************************************************************************)
MovePointer ==
    /\ ~exited
    /\ \E p \in PointerPositions \ {mpos} : mpos' = p
    /\ lastEvent' = "move"
    /\ UNCHANGED << asteroids, chosenNum, localNum2, mouseOver,
                    outputDataContents, timerOverallNew, timerRedNew,
                    perfCounter, wallClock, dataFile, exited, pc, localNum >>

(***************************************************************************)
(* mouseTask: once per frame.                                              *)
(***************************************************************************)
\* picker.traverse(asteroids[chosenNum]): the collision queue holds the tag
\* of the red target when the pointer ray hits it, and is empty otherwise.
pqEntries(p, c) == IF p = c THEN << c >> ELSE << >>

\* Variant that clears the flag in a frame whose ray misses the red target.
mouseTaskOverClearsOnMiss(p, c, over) ==
    IF p # NoMouse
    THEN LET pq == pqEntries(p, c)
         IN  Len(pq) > 0 /\ c = pq[1]
    ELSE over

mouseTaskOver(p, c, over) ==
    IF p # NoMouse
    THEN LET pq == pqEntries(p, c)
         IN  IF Len(pq) > 0
             THEN IF c = pq[1] THEN TRUE ELSE over
             ELSE over
    ELSE over

mouseTask ==
    /\ ~exited
    /\ mouseOver' = mouseTaskOver(mpos, chosenNum, mouseOver)
    /\ UNCHANGED << asteroids, chosenNum, localNum2, outputDataContents,
                    timerOverallNew, timerRedNew, mpos, perfCounter,
                    wallClock, dataFile, exited, pc, localNum,
                    lastEvent >>

(***************************************************************************)
(* everySecond: re-draws the pre-selected target.                          *)
(***************************************************************************)
everySecond ==
    /\ ~exited
    /\ \E l \in NextCandidates(chosenNum) :
          /\ localNum2' = l
          /\ asteroids' = [[asteroids EXCEPT ![localNum2] = Blue]
                                         EXCEPT ![l] = Yellow]
    /\ lastEvent' = "next"
    /\ UNCHANGED << chosenNum, mouseOver, outputDataContents,
                    timerOverallNew, timerRedNew, mpos, perfCounter,
                    wallClock, dataFile, exited, pc, localNum >>

(***************************************************************************)
(* everySecondRed: re-draws the red target.                                *)
(***************************************************************************)
\* Variant that assigns the draw to localNum2 as well.
everySecondRedWritesNext ==
    /\ ~exited
    /\ \E l \in ActiveCandidates(chosenNum, localNum2) :
          /\ chosenNum' = l
          /\ localNum2' = chosenNum
          /\ asteroids' = [[asteroids EXCEPT ![chosenNum] = Blue]
                                         EXCEPT ![l] = Red]
    /\ lastEvent' = "active"
    /\ UNCHANGED << mouseOver, outputDataContents,
                    timerOverallNew, timerRedNew, mpos, perfCounter,
                    wallClock, dataFile, exited, pc, localNum >>

\* Variant that does not repaint the old red target.
everySecondRedKeepsOld ==
    /\ ~exited
    /\ \E l \in ActiveCandidates(chosenNum, localNum2) :
          /\ chosenNum' = l
          /\ asteroids' = [asteroids EXCEPT ![l] = Red]
    /\ lastEvent' = "active"
    /\ UNCHANGED << localNum2, mouseOver, outputDataContents,
                    timerOverallNew, timerRedNew, mpos, perfCounter,
                    wallClock, dataFile, exited, pc, localNum >>

everySecondRed ==
    /\ ~exited
    /\ \E l \in ActiveCandidates(chosenNum, localNum2) :
          /\ chosenNum' = l
          /\ asteroids' = [[asteroids EXCEPT ![chosenNum] = Blue]
                                         EXCEPT ![l] = Red]
    /\ lastEvent' = "active"
    /\ UNCHANGED << localNum2, mouseOver, outputDataContents,
                    timerOverallNew, timerRedNew, mpos, perfCounter,
                    wallClock, dataFile, exited, pc, localNum >>

(***************************************************************************)
(* changeColor: the "mouse1" handler.  t1..t4 are the successive           *)
(* perf_counter() readings of the handler.                                 *)
(***************************************************************************)
\* Variant that leaves mouseOver set.
changeColorInsideNoReset(t1, t2, t3, t4) ==
    /\ mouseOver = TRUE
    /\ timerOverallNew' = t2
    /\ timerRedNew' = t4
    /\ LET tOverall == Clamp(t1 - timerOverallNew)
           tRed == Clamp(t3 - timerRedNew)
       IN  outputDataContents' =
               outputDataContents \o InsideLine(WallAt(t4), tOverall, tRed)
    /\ mouseOver' = mouseOver
    /\ perfCounter' = t4
    /\ wallClock' = WallAt(t4)
    /\ lastEvent' = IF mpos = chosenNum THEN "insideOnRed" ELSE "click"

\* Variant that subtracts timerOverallNew, already set to t2 by line 249,
\* where line 250 subtracts timerRedNew.
changeColorInsideRedFromClickCursor(t1, t2, t3, t4) ==
    /\ mouseOver = TRUE
    /\ timerOverallNew' = t2
    /\ timerRedNew' = t4
    /\ LET tOverall == Clamp(t1 - timerOverallNew)
           tRed == Clamp(t3 - t2)
       IN  outputDataContents' =
               outputDataContents \o InsideLine(WallAt(t4), tOverall, tRed)
    /\ mouseOver' = FALSE
    /\ perfCounter' = t4
    /\ wallClock' = WallAt(t4)
    /\ lastEvent' = IF mpos = chosenNum THEN "insideOnRed" ELSE "click"

changeColorInside(t1, t2, t3, t4) ==
    /\ mouseOver = TRUE
    /\ timerOverallNew' = t2
    /\ timerRedNew' = t4
    /\ LET tOverall == Clamp(t1 - timerOverallNew)
           tRed == Clamp(t3 - timerRedNew)
       IN  outputDataContents' =
               outputDataContents \o InsideLine(WallAt(t4), tOverall, tRed)
    /\ mouseOver' = FALSE
    /\ perfCounter' = t4
    /\ wallClock' = WallAt(t4)
    /\ lastEvent' = IF mpos = chosenNum THEN "insideOnRed" ELSE "click"

\* Variant that assigns the new line instead of appending it.
changeColorOutsideOverwrites(t1, t2) ==
    /\ ~(mouseOver = TRUE)
    /\ LET tOverall == Clamp(t1 - timerOverallNew)
       IN  outputDataContents' = OutsideLine(WallAt(t2), tOverall)
    /\ timerOverallNew' = t2
    /\ perfCounter' = t2
    /\ wallClock' = WallAt(t2)
    /\ UNCHANGED << timerRedNew, mouseOver >>
    /\ lastEvent' = "click"

\* Variant that also stores the reading in timerRedNew (the inside branch's
\* line 253 repeated in the else branch).
changeColorOutsideSetsRedCursor(t1, t2) ==
    /\ ~(mouseOver = TRUE)
    /\ timerOverallNew' = t2
    /\ LET tOverall == Clamp(t1 - timerOverallNew)
       IN  outputDataContents' =
               outputDataContents \o OutsideLine(WallAt(t2), tOverall)
    /\ perfCounter' = t2
    /\ wallClock' = WallAt(t2)
    /\ timerRedNew' = t2
    /\ UNCHANGED mouseOver
    /\ lastEvent' = "click"

changeColorOutside(t1, t2) ==
    /\ ~(mouseOver = TRUE)
    /\ timerOverallNew' = t2
    /\ LET tOverall == Clamp(t1 - timerOverallNew)
       IN  outputDataContents' =
               outputDataContents \o OutsideLine(WallAt(t2), tOverall)
    /\ perfCounter' = t2
    /\ wallClock' = WallAt(t2)
    /\ UNCHANGED << timerRedNew, mouseOver >>
    /\ lastEvent' = "click"

changeColorAt(t1, t2, t3, t4) ==
    /\ UNCHANGED << asteroids, chosenNum, localNum2, mpos, dataFile, exited,
                    pc, localNum >>
    /\ \/ changeColorInside(t1, t2, t3, t4)
       \/ (t3 = t2 /\ t4 = t2 /\ changeColorOutside(t1, t2))

changeColor ==
    /\ ~exited
    /\ NumClicks < MaxClicks
    /\ \E t1 \in PerfReads(perfCounter) :
         \E t2 \in PerfReads(t1) :
           \E t3 \in PerfReads(t2) :
             \E t4 \in PerfReads(t3) :
                changeColorAt(t1, t2, t3, t4)

(***************************************************************************)
(* saveDataExit: the "escape" handler.                                     *)
(***************************************************************************)
\* Variant without sys.exit(): the file is written and the game goes on.
saveDataExitKeepsRunning ==
    /\ ~exited
    /\ dataFile' = outputDataContents
    /\ exited' = FALSE
    /\ UNCHANGED << asteroids, chosenNum, localNum2, mouseOver,
                    outputDataContents, timerOverallNew, timerRedNew, mpos,
                    perfCounter, wallClock, pc, localNum >>
    /\ lastEvent' = "exit"

\* The file's name, "dataFile_" + makeid(16) + ".txt", is random and plays
\* no part in what is written; only the content is kept.
saveDataExit ==
    /\ ~exited
    /\ dataFile' = outputDataContents
    /\ exited' = TRUE
    /\ UNCHANGED << asteroids, chosenNum, localNum2, mouseOver,
                    outputDataContents, timerOverallNew, timerRedNew, mpos,
                    perfCounter, wallClock, pc, localNum >>
    /\ lastEvent' = "exit"

Next ==
    \/ MovePointer
    \/ mouseTask
    \/ everySecond
    \/ everySecondRed
    \/ changeColor
    \/ saveDataExit

Spec == Init /\ [][Next]_vars

(***************************************************************************)
(* The two tick handlers, one draw at a time.  randrange(17) draws an      *)
(* index of the list of targets; here the list is asteroids, of whatever   *)
(* length it was built with, so that the loops can be followed for a list  *)
(* of two targets as well.  (With a single target the loop of __init__,    *)
(* lines 166-167, never ends and no tick is ever scheduled.)               *)
(***************************************************************************)
Indices == DOMAIN asteroids

\* Loop test of everySecond (line 222).
NextRejects(c, l) == c = l

\* Loop test of everySecondRed (line 232).
ActiveRejects(c, l2, l) == c = l \/ l2 = l

tickUnchanged ==
    UNCHANGED << mouseOver, outputDataContents, timerOverallNew, timerRedNew,
                 mpos, perfCounter, wallClock, dataFile, exited >>

\* Lines 220-221: repaint the old pre-selected target, first draw.
everySecondStart ==
    /\ ~exited
    /\ pc = "idle"
    /\ asteroids' = [asteroids EXCEPT ![localNum2] = Blue]
    /\ localNum2' \in Indices
    /\ pc' = "everySecond"
    /\ UNCHANGED << chosenNum, localNum, lastEvent >>
    /\ tickUnchanged

\* Lines 222-223: the draw is rejected, draw again.
everySecondLoop ==
    /\ pc = "everySecond"
    /\ NextRejects(chosenNum, localNum2)
    /\ localNum2' \in Indices
    /\ UNCHANGED << asteroids, chosenNum, pc, localNum, lastEvent >>
    /\ tickUnchanged

\* Lines 222, 224-225: the draw is accepted and painted yellow.
everySecondEnd ==
    /\ pc = "everySecond"
    /\ ~NextRejects(chosenNum, localNum2)
    /\ asteroids' = [asteroids EXCEPT ![localNum2] = Yellow]
    /\ pc' = "idle"
    /\ lastEvent' = "next"
    /\ UNCHANGED << chosenNum, localNum2, localNum >>
    /\ tickUnchanged

\* Lines 230-231: repaint the old red target, first draw.
everySecondRedStart ==
    /\ ~exited
    /\ pc = "idle"
    /\ asteroids' = [asteroids EXCEPT ![chosenNum] = Blue]
    /\ localNum' \in Indices
    /\ pc' = "everySecondRed"
    /\ UNCHANGED << chosenNum, localNum2, lastEvent >>
    /\ tickUnchanged

\* Variant whose loop body does not draw again.
everySecondRedLoopNoRedraw ==
    /\ pc = "everySecondRed"
    /\ ActiveRejects(chosenNum, localNum2, localNum)
    /\ localNum' = localNum
    /\ UNCHANGED << asteroids, chosenNum, localNum2, pc, lastEvent >>
    /\ tickUnchanged

\* Lines 232-233: the draw is rejected, draw again.
everySecondRedLoop ==
    /\ pc = "everySecondRed"
    /\ ActiveRejects(chosenNum, localNum2, localNum)
    /\ localNum' \in Indices
    /\ UNCHANGED << asteroids, chosenNum, localNum2, pc, lastEvent >>
    /\ tickUnchanged

\* Lines 232, 234-236: the draw is accepted and painted red.
everySecondRedEnd ==
    /\ pc = "everySecondRed"
    /\ ~ActiveRejects(chosenNum, localNum2, localNum)
    /\ chosenNum' = localNum
    /\ asteroids' = [asteroids EXCEPT ![localNum] = Red]
    /\ pc' = "idle"
    /\ localNum' = NoDraw
    /\ lastEvent' = "active"
    /\ UNCHANGED localNum2
    /\ tickUnchanged

\* State after __init__ for a list of NumTargets targets, or of two.
InitTicks ==
    /\ \E n \in {2, NumTargets} :
          /\ chosenNum \in 0 .. (n - 1)
          /\ localNum2 \in { l \in 0 .. (n - 1) : ~NextRejects(chosenNum, l) }
          /\ asteroids =
                [i \in 0 .. (n - 1) |-> IF i = chosenNum THEN Red ELSE Blue]
    /\ mouseOver = FALSE
    /\ \E s \in SessionStarts :
          /\ perfCounter = s.perf
          /\ wallClock = s.wall
          /\ outputDataContents = Header \o FirstRedLine(s.wall)
    /\ timerOverallNew = Sentinel
    /\ timerRedNew = Sentinel
    /\ mpos \in PointerPositions
    /\ dataFile = << >>
    /\ exited = FALSE
    /\ pc = "idle"
    /\ localNum = NoDraw
    /\ lastEvent = "init"

NextTicks ==
    \/ everySecondStart
    \/ everySecondLoop
    \/ everySecondEnd
    \/ everySecondRedStart
    \/ everySecondRedLoop
    \/ everySecondRedEnd

\* randrange() returns every index with the same probability, each draw
\* independent of the others: a loop that keeps drawing draws, sooner or
\* later, an index its test accepts, if there is one.  A handler that was
\* called runs to its end.
FairDraws ==
    /\ WF_vars(everySecondLoop /\ ~NextRejects(chosenNum, localNum2'))
    /\ WF_vars(everySecondRedLoop
                 /\ ~ActiveRejects(chosenNum, localNum2, localNum'))
    /\ WF_vars(everySecondEnd)
    /\ WF_vars(everySecondRedEnd)

SpecTicks == InitTicks /\ [][NextTicks]_vars /\ FairDraws

(***************************************************************************)
(* Reading the log back: lines, fields, events.                            *)
(***************************************************************************)
RECURSIVE Split(_, _)
\* s.split(sep)
Split(s, sep) ==
    IF \A i \in DOMAIN s : s[i] # sep
    THEN << s >>
    ELSE LET i == CHOOSE k \in DOMAIN s :
                      s[k] = sep /\ \A j \in 1 .. (k - 1) : s[j] # sep
         IN  << SubSeq(s, 1, i - 1) >> \o Split(SubSeq(s, i + 1, Len(s)), sep)

\* The lines of the text (each ended by "\n").
Lines(text) == LET p == Split(text, NL) IN SubSeq(p, 1, Len(p) - 1)

Fields(line) == Split(line, Comma)

\* The event lines: all lines but the header.
Events(text) == Tail(Lines(text))

IsKind(line, w) ==
    LET fl == Fields(line) IN Len(fl) >= 2 /\ fl[2] = << Word(w) >>

IsInside(line) == IsKind(line, "leftClkInsideRed")
IsOutside(line) == IsKind(line, "leftClkOutsideRed")
IsFirstRed(line) == IsKind(line, "firstRedAppears")

LastEvent(text) == Lines(text)[Len(Lines(text))]

\* In the properties below, "\A x \in { e } : ..." names the value of e: it
\* is read from the log once.

(***************************************************************************)
(* C1.  After initialization and after every handler, chosenNum and        *)
(* localNum2 are valid target indices and differ.                          *)
(***************************************************************************)
C1_IndicesDistinct ==
    /\ chosenNum \in Targets
    /\ localNum2 \in Targets
    /\ chosenNum # localNum2

\* Both ticks have fired, the last one an everySecondRed, and a click was
\* handled.
C1_Witness ==
    /\ lastEvent = "active"
    /\ asteroids[localNum2] = Yellow
    /\ NumClicks > 0

(***************************************************************************)
(* C2.  No cross-mutation: only everySecondRed changes chosenNum and only  *)
(* everySecond changes localNum2; everySecond leaves chosenNum alone,      *)
(* everySecondRed leaves localNum2 alone, and the frame hit test, clicks,  *)
(* pointer moves and exit leave both alone.  (Stated by contraposition: a  *)
(* step that changes chosenNum is an everySecondRed and is a step of no    *)
(* other handler, and likewise for localNum2.)                             *)
(***************************************************************************)
C2_NoCrossMutation ==
    [][ /\ (chosenNum' # chosenNum
              => /\ everySecondRed
                 /\ ~(everySecond \/ mouseTask \/ changeColor \/ MovePointer
                        \/ saveDataExit))
        /\ (localNum2' # localNum2
              => /\ everySecond
                 /\ ~(everySecondRed \/ mouseTask \/ changeColor
                        \/ MovePointer \/ saveDataExit)) ]_vars

\* An everySecondRed has just fired after an everySecond drew the yellow
\* target.
C2_Witness ==
    /\ lastEvent = "active"
    /\ asteroids[localNum2] = Yellow
    /\ NumClicks = 0

(***************************************************************************)
(* C3.  Exactly one target is red (Active), and it is the one at           *)
(* chosenNum.                                                              *)
(***************************************************************************)
C3_ExactlyOneActive ==
    { i \in Targets : asteroids[i] = Red } = { chosenNum }

\* An everySecondRed has just moved the red target, with a yellow target
\* drawn by an earlier everySecond and every other target blue.
C3_Witness ==
    /\ lastEvent = "active"
    /\ asteroids[localNum2] = Yellow
    /\ \A i \in Targets \ {chosenNum, localNum2} : asteroids[i] = Blue

(***************************************************************************)
(* Elapsed values of an event line: field 3 (timeSinceLastClick) and       *)
(* field 4 (timeSinceLastRedClick); a field is empty or holds one number.  *)
(***************************************************************************)
HasField(line, f) == Len(Fields(line)) >= f /\ Fields(line)[f] # << >>
FieldValue(line, f) == Fields(line)[f][1].n

\* The step appends exactly one line and keeps what was there.
AppendsOneLine ==
    LET old == Lines(outputDataContents)
        new == Lines(outputDataContents')
    IN  /\ Len(outputDataContents') > Len(outputDataContents)
        /\ SubSeq(outputDataContents', 1, Len(outputDataContents))
              = outputDataContents
        /\ Len(new) = Len(old) + 1
        /\ SubSeq(new, 1, Len(old)) = old

(***************************************************************************)
(* C4 (as stated).  Scenario B: with the pointer over the red target and   *)
(* mouseOver set, a click appends exactly one leftClkInsideRed line and    *)
(* clears mouseOver; the next click, with the pointer not moved, no tick   *)
(* and any number of frames in between, appends leftClkOutsideRed.         *)
(* lastEvent = "insideOnRed" says exactly that: the last thing that        *)
(* happened, frames apart, was such a click.                               *)
(***************************************************************************)
C4_SecondClickOutside ==
    [][ /\ (mouseOver /\ mpos = chosenNum /\ changeColor
              => /\ AppendsOneLine
                 /\ IsInside(LastEvent(outputDataContents'))
                 /\ mouseOver' = FALSE)
        /\ (lastEvent = "insideOnRed" /\ changeColor
              => IsOutside(LastEvent(outputDataContents'))) ]_vars

(***************************************************************************)
(* C4 (amended).  The first click is as stated.  The next click, with the  *)
(* pointer not moved and no tick in between, appends leftClkOutsideRed     *)
(* only while mouseOver is still clear; any frame hit test in between      *)
(* sets mouseOver again, and the click then appends leftClkInsideRed.      *)
(***************************************************************************)
C4_SecondClickFollowsFlag ==
    [][ /\ (mouseOver /\ mpos = chosenNum /\ changeColor
              => /\ AppendsOneLine
                 /\ IsInside(LastEvent(outputDataContents'))
                 /\ mouseOver' = FALSE)
        /\ (lastEvent = "insideOnRed" /\ mouseTask => mouseOver' = TRUE)
        /\ (lastEvent = "insideOnRed" /\ changeColor
              => /\ AppendsOneLine
                 /\ IF mouseOver
                    THEN IsInside(LastEvent(outputDataContents'))
                    ELSE IsOutside(LastEvent(outputDataContents'))) ]_vars

\* Two clicks on the red target without moving the pointer, a frame before
\* each: both were logged leftClkInsideRed.
C4_Witness ==
    /\ lastEvent = "insideOnRed"
    /\ NumClicks = 2
    /\ \A k \in 2 .. 3 : IsInside(Events(outputDataContents)[k])
    /\ mouseOver = FALSE

(***************************************************************************)
(* C5.  Whenever mouseOver is set, the pointer is over the target that is  *)
(* red now (so leftClkInsideRed is logged only for clicks on the red       *)
(* target).                                                                *)
(***************************************************************************)
C5_FlagMeansPointerOnRed ==
    mouseOver => mpos = chosenNum

(***************************************************************************)
(* C6 (as stated).  An everySecondRed makes the pre-selected target the    *)
(* red one: the new chosenNum is the localNum2 held before the tick.       *)
(***************************************************************************)
C6_NextBecomesActive ==
    [][ everySecondRed => chosenNum' = localNum2 ]_vars

(***************************************************************************)
(* C6 (amended).  An everySecondRed never makes the pre-selected target    *)
(* the red one: the new chosenNum differs from the localNum2 held before   *)
(* the tick, and that target keeps its index and colour.                   *)
(***************************************************************************)
C6_ActiveAvoidsNext ==
    [][ everySecondRed
          => /\ chosenNum' # localNum2
             /\ localNum2' = localNum2
             /\ asteroids'[localNum2] = asteroids[localNum2] ]_vars

\* An everySecondRed has just fired while a yellow target was on display,
\* with the stale hover flag still set.
C6_Witness ==
    /\ lastEvent = "active"
    /\ asteroids[localNum2] = Yellow
    /\ mouseOver

(***************************************************************************)
(* C7 (as stated).  The outcomes of an everySecondRed are exactly the      *)
(* indices other than localNum2, the current chosenNum included.           *)
(***************************************************************************)
C7_OnlyNextExcluded ==
    ~exited =>
       \A i \in Targets :
          (ENABLED (everySecondRed /\ chosenNum' = i)) <=> (i # localNum2)

(***************************************************************************)
(* C7 (amended).  The outcomes of an everySecondRed are exactly the        *)
(* indices other than localNum2 and other than the current chosenNum.      *)
(***************************************************************************)
C7_NextAndOldExcluded ==
    ~exited =>
       \A i \in Targets :
          (ENABLED (everySecondRed /\ chosenNum' = i))
             <=> (i # localNum2 /\ i # chosenNum)

\* An everySecondRed has just fired, before any everySecond.
C7_Witness ==
    /\ lastEvent = "active"
    /\ \A i \in Targets \ {chosenNum} : asteroids[i] = Blue

(***************************************************************************)
(* C8.  Every elapsed value in the log is >= 0, and a click whose clock    *)
(* reading is below the stored cursor records exactly 0.                   *)
(***************************************************************************)
ElapsedNonNegative ==
    LET ev == Events(outputDataContents)
    IN  \A k \in 1 .. Len(ev) :
           LET fl == Fields(ev[k])
           IN  \A f \in 3 .. 4 :
                  (Len(fl) >= f /\ fl[f] # << >>) => fl[f][1].n >= 0

C8_ElapsedClamped ==
    /\ []ElapsedNonNegative
    /\ [][ outputDataContents' # outputDataContents =>
             \A t1 \in PerfReads(perfCounter) :
               \A t2 \in PerfReads(t1) :
                 \A t3 \in PerfReads(t2) :
                   \A t4 \in PerfReads(t3) :
                     changeColorAt(t1, t2, t3, t4)
                       => /\ (t1 < timerOverallNew
                               => FieldValue(LastEvent(outputDataContents'), 3)
                                     = 0)
                          /\ (mouseOver /\ t3 < timerRedNew
                               => FieldValue(LastEvent(outputDataContents'), 4)
                                     = 0) ]_vars

\* A session that starts below the sentinel: the first click (inside red)
\* was clamped to 0 in both fields, the second recorded 1 second.
C8_Witness ==
    /\ perfCounter < Sentinel
    /\ NumClicks = 2
    /\ IsInside(Events(outputDataContents)[2])
    /\ FieldValue(Events(outputDataContents)[2], 3) = 0
    /\ FieldValue(Events(outputDataContents)[2], 4) = 0
    /\ FieldValue(Events(outputDataContents)[3], 3) = 1

(***************************************************************************)
(* C9.  The first click of a session records timeSinceLastClick = 0 and    *)
(* the first click inside red records timeSinceLastRedClick = 0, whatever  *)
(* the clock reads.                                                        *)
(***************************************************************************)
FirstInside(ev) ==
    { k \in 1 .. Len(ev) :
         IsInside(ev[k]) /\ \A j \in 1 .. (k - 1) : ~IsInside(ev[j]) }

C9_FirstDeltaZero ==
    LET ev == Events(outputDataContents)
    IN  /\ (Len(ev) >= 2 => FieldValue(ev[2], 3) = 0)
        /\ \A k \in FirstInside(ev) : FieldValue(ev[k], 4) = 0

(***************************************************************************)
(* C10.  The log is append-only: a click appends exactly one line and      *)
(* keeps everything before it; no other handler changes the log.  (A step  *)
(* that changes the log appends one line and is a changeColor and no other *)
(* handler; a step that keeps the log is no changeColor.)                  *)
(***************************************************************************)
C10_AppendOnly ==
    [][ /\ (outputDataContents' # outputDataContents
              => /\ AppendsOneLine
                 /\ changeColor
                 /\ ~(everySecond \/ everySecondRed \/ mouseTask
                        \/ MovePointer \/ saveDataExit))
        /\ (outputDataContents' = outputDataContents => ~changeColor) ]_vars

\* Two clicks were logged, one inside and one outside red, after the
\* header and the firstRedAppears line.
C10_Witness ==
    /\ NumClicks = 2
    /\ IsFirstRed(Events(outputDataContents)[1])
    /\ IsInside(Events(outputDataContents)[2])
    /\ IsOutside(Events(outputDataContents)[3])

(***************************************************************************)
(* C11.  Timestamps never go back: for any two events i < j of the log,    *)
(* the HH:MM:SS time stamp of event i is not after that of event j.        *)
(* (Two stamps of the same format compare as their digits HHMMSS.)         *)
(***************************************************************************)
TimeStamp(line) == Fields(line)[1][1].n

C11_TimestampsMonotonic ==
    LET ev == Events(outputDataContents)
    IN  \A i \in 1 .. Len(ev) :
           \A j \in (i + 1) .. Len(ev) : TimeStamp(ev[i]) <= TimeStamp(ev[j])

(***************************************************************************)
(* C12.  The log always holds exactly one firstRedAppears line; it is the  *)
(* first line after the header, its two elapsed-time fields are empty, and *)
(* no handler ever appends another one.                                    *)
(***************************************************************************)
C12_OneFirstRedLine ==
    \A ev \in { Events(outputDataContents) } :
       /\ Len(ev) >= 1
       /\ \A fl \in { Fields(ev[1]) } :
             /\ Len(fl) = 4
             /\ fl[2] = << Word("firstRedAppears") >>
             /\ fl[3] = << >>
             /\ fl[4] = << >>
       /\ \A k \in 2 .. Len(ev) : ~IsFirstRed(ev[k])

\* Both ticks fired, two clicks were logged (the last one outside red), and
\* the game was left.
C12_Witness ==
    /\ exited
    /\ NumClicks = 2
    /\ asteroids[localNum2] = Yellow
    /\ IsOutside(LastEvent(outputDataContents))

(***************************************************************************)
(* C13.  A frame's hit test (mouseTask) changes nothing but mouseOver.     *)
(* With no pointer position it changes nothing at all; it never turns      *)
(* mouseOver from true to false; and it turns it true only when the        *)
(* pointer ray hits the target at the current chosenNum.                   *)
(***************************************************************************)
C13_FrameOnlySetsFlag ==
    [][ mouseTask =>
          /\ (mpos = NoMouse => mouseOver' = mouseOver)
          /\ (mouseOver => mouseOver')
          /\ (mouseOver' /\ ~mouseOver => mpos = chosenNum)
          /\ UNCHANGED << asteroids, chosenNum, localNum2,
                          outputDataContents, timerOverallNew, timerRedNew,
                          dataFile, exited >> ]_vars

\* The flag was set by a frame, and the pointer has since left the window
\* with frames still running: the flag is kept.
C13_Witness ==
    /\ mouseOver
    /\ mpos = NoMouse
    /\ lastEvent = "move"

(***************************************************************************)
(* C14.  On exit the file holds exactly the log: the header followed by    *)
(* every event appended so far, in order (header and firstRedAppears line  *)
(* when nothing was clicked).  The process then ends: the file is written  *)
(* only by the exit, no handler runs after it and nothing is appended.     *)
(***************************************************************************)
C14_FileIsLogAtExit ==
    /\ exited <=> dataFile # << >>
    /\ exited =>
         /\ dataFile = outputDataContents
         /\ SubSeq(dataFile, 1, Len(Header)) = Header
         /\ \A ev \in { Events(dataFile) } :
               IsFirstRed(ev[1]) /\ Len(ev) = NumClicks + 1
         /\ ~ENABLED Next

\* The game was left after an inside and an outside click: the file has the
\* header and three events.
C14_Witness ==
    /\ exited
    /\ Len(Lines(dataFile)) = 4
    /\ IsInside(Events(dataFile)[2])
    /\ IsOutside(Events(dataFile)[3])

(***************************************************************************)
(* C15.  Every line of the log, the header included, has exactly four      *)
(* comma-separated fields; the third field (timeSinceLastClick) is empty   *)
(* exactly on firstRedAppears lines, and the fourth                        *)
(* (timeSinceLastRedClick) is filled exactly on leftClkInsideRed lines.    *)
(***************************************************************************)
C15_FourFields ==
    \A ln \in { Lines(outputDataContents) } :
       \A k \in 1 .. Len(ln) :
          \A fl \in { Fields(ln[k]) } :
             /\ Len(fl) = 4
             /\ k > 1 =>
                  /\ fl[3] = << >> <=> fl[2] = << Word("firstRedAppears") >>
                  /\ fl[4] # << >> <=> fl[2] = << Word("leftClkInsideRed") >>

\* An outside click and then an inside click were logged.
C15_Witness ==
    /\ NumClicks = 2
    /\ IsOutside(Events(outputDataContents)[2])
    /\ IsInside(Events(outputDataContents)[3])

(***************************************************************************)
(* C16.  Rejection sampling can always finish.  With more than two targets *)
(* there is, in every state, an index that everySecond's loop accepts and  *)
(* one that everySecondRed's loop accepts, and with fair draws a tick that *)
(* started runs to its end.  With two targets everySecondRed's loop        *)
(* accepts no index and, once started, never ends.                         *)
(***************************************************************************)
NextAdmissible == { l \in Indices : ~NextRejects(chosenNum, l) }
ActiveAdmissible == { l \in Indices : ~ActiveRejects(chosenNum, localNum2, l) }

C16_ResamplingEnds ==
    /\ [](Cardinality(Indices) > 2
            => NextAdmissible # {} /\ ActiveAdmissible # {})
    /\ (Cardinality(Indices) > 2 /\ pc # "idle") ~> (pc = "idle")
    /\ [](Cardinality(Indices) <= 2 /\ pc = "everySecondRed"
            => ActiveAdmissible = {})
    /\ [][ Cardinality(Indices) <= 2 /\ pc = "everySecondRed"
             => pc' = "everySecondRed" ]_vars

\* More than two targets, both ticks have run to their end before, and
\* everySecondRed has just drawn the pre-selected index, which its loop
\* rejects.
C16_Witness ==
    /\ Cardinality(Indices) > 2
    /\ pc = "everySecondRed"
    /\ localNum = localNum2
    /\ lastEvent = "active"
    /\ asteroids[localNum2] = Yellow

(***************************************************************************)
(* C17.  Every click stores one of its own clock readings in               *)
(* timerOverallNew.  A click outside red leaves timerRedNew and mouseOver  *)
(* alone, so timerRedNew is always the time of the last click inside red   *)
(* (the sentinel while there was none), however many outside clicks        *)
(* followed it, and the fourth field of an inside line is a reading of     *)
(* that click minus that time, clamped.  Steps that are no click (ticks,   *)
(* frames, pointer moves, exit) change neither cursor.                     *)
(***************************************************************************)
LastInside(ev) ==
    { k \in 1 .. Len(ev) :
         IsInside(ev[k]) /\ \A j \in (k + 1) .. Len(ev) : ~IsInside(ev[j]) }

\* The time of day at which the clock read timerRedNew.
WallAtRedCursor == (wallClock - (perfCounter - timerRedNew)) % SecondsPerDay

RedCursorIsLastInsideClick ==
    \A ev \in { Events(outputDataContents) } :
       \A last \in { LastInside(ev) } :
          /\ (last = {} => timerRedNew = Sentinel)
          /\ \A k \in last :
                Fields(ev[k])[1] = << strftime(WallAtRedCursor) >>

C18_RedDeltaAtLeastClickDelta ==
    LET ev == Events(outputDataContents)
    IN  \A k \in 1 .. Len(ev) :
           IsInside(ev[k]) => FieldValue(ev[k], 4) >= FieldValue(ev[k], 3)

(***************************************************************************)
(* C18, amended.  A click inside red records timeSinceLastRedClick >=      *)
(* timeSinceLastClick whenever, as the click is handled, timerRedNew is    *)
(* not after timerOverallNew.  (It is after it while timerRedNew is still  *)
(* the sentinel and an outside click has been handled, and when the last   *)
(* click was an inside click whose handler read the clock for timerRedNew  *)
(* later than for timerOverallNew.)                                        *)
(***************************************************************************)
C18_RedDeltaWhenCursorsOrdered ==
    [][ (/\ outputDataContents' # outputDataContents
         /\ mouseOver
         /\ timerRedNew <= timerOverallNew)
          => \A line \in { LastEvent(outputDataContents') } :
                \A fl \in { Fields(line) } :
                   /\ fl[2] = << Word("leftClkInsideRed") >>
                   /\ fl[4][1].n >= fl[3][1].n ]_vars

\* Two inside clicks a second apart, the first with one reading for both
\* cursors: the second line records one second in both fields.
C18_Witness ==
    /\ NumClicks = 2
    /\ IsInside(Events(outputDataContents)[2])
    /\ IsInside(Events(outputDataContents)[3])
    /\ timerRedNew = timerOverallNew
    /\ FieldValue(Events(outputDataContents)[3], 3) = 1
    /\ FieldValue(Events(outputDataContents)[3], 4) = 1

(***************************************************************************)
(* C19.  The colours follow the indices in every state from                *)
(* initialization on: the target at localNum2 is yellow, and every target  *)
(* other than those at chosenNum and localNum2 is blue.                    *)
(***************************************************************************)
C19_ColoursFollowIndices ==
    /\ asteroids[localNum2] = Yellow
    /\ \A i \in Targets \ {chosenNum, localNum2} : asteroids[i] = Blue

====
